---- MODULE Spec2Model ----
(***************************************************************************)
(* Shift-scheduling backend (src/app.py): the persistent tables touched by *)
(* the shift-response approval workflow, the shift-swap workflow and the   *)
(* salary estimate, with one action per HTTP handler.  Every handler runs  *)
(* in one request-scoped session: what it commits is the next state, what  *)
(* it leaves uncommitted is discarded when the request ends.               *)
(***************************************************************************)
EXTENDS Integers, Sequences, FiniteSets, TLC

(***************************************************************************)
(* Bounds of the model.                                                    *)
(***************************************************************************)
MaxShifts == 2
MaxResponses == 2
MaxAssigned == 1
MaxSwaps == 1
MaxHistories == 2
MaxWageRates == 2

(***************************************************************************)
(* Values.  A date is a calendar day [y, m, d]; a time of day is a number  *)
(* of minutes since 00:00.  None is the absent (NULL / missing) value of   *)
(* its type: NoDate, NoTime, and 0 for an id.                              *)
(***************************************************************************)
Date(y, m, d) == [y |-> y, m |-> m, d |-> d]
NoDate == Date(0, 0, 0)
NoTime == 0 - 1
NoMonth == [y |-> 0, m |-> 0]

(***************************************************************************)
(* The proleptic Gregorian calendar of datetime: strptime accepts only     *)
(* days that exist, and dates are ordered and subtracted by their ordinal  *)
(* (days since 0001-01-01).                                                *)
(***************************************************************************)
IsLeap(y) == (y % 4 = 0 /\ y % 100 # 0) \/ y % 400 = 0

DaysInMonth(y, m) ==
    IF m = 2 THEN (IF IsLeap(y) THEN 29 ELSE 28)
    ELSE IF m \in {4, 6, 9, 11} THEN 30 ELSE 31

DaysBeforeMonth(y, m) ==
    <<0, 31, 59, 90, 120, 151, 181, 212, 243, 273, 304, 334>>[m]
        + (IF m > 2 /\ IsLeap(y) THEN 1 ELSE 0)

DaysBeforeYear(y) ==
    LET p == y - 1 IN p * 365 + (p \div 4) - (p \div 100) + (p \div 400)

ToOrdinal(date) ==
    DaysBeforeYear(date.y) + DaysBeforeMonth(date.y, date.m) + date.d

IsMonth(month) == month.y >= 1 /\ month.m \in 1..12

IsDate(date) ==
    /\ date.y >= 1
    /\ date.m \in 1..12
    /\ date.d \in 1..DaysInMonth(date.y, date.m)

VARIABLES
    employees,        \* Employee table: employees[id] = email of employee id
    shift_responses,  \* ShiftResponse table, indexed by id
    shifts,           \* Shift table, indexed by id
    shift_swaps,      \* ShiftSwap table, indexed by id
    shift_histories,  \* ShiftHistory table, indexed by id
    wage_rates,       \* WageRate table, indexed by id
    last,             \* the last request and its HTTP response
    calls             \* the approval requests in flight, one per worker thread

vars == <<employees, shift_responses, shifts, shift_swaps, shift_histories,
          wage_rates, last, calls>>

tables == <<employees, shift_responses, shifts, shift_swaps, shift_histories,
            wage_rates>>

(***************************************************************************)
(* Reference data entered before the workflows start: two groups, one      *)
(* shift request per group (shift_requests[id] = group_id: request 1 is    *)
(* for group 2, request 2 for group 1), two employees registered with      *)
(* their e-mail addresses.                                                 *)
(***************************************************************************)
groups == {1, 2}
shift_requests == <<2, 1>>
AdminEmails == {"boss@x", "chief@x"}
Roles == {"admin", "teacher"}

(***************************************************************************)
(* The last request and its HTTP response: the handler, the id in the path *)
(* of an approval or a salary request (0 otherwise), the month parameter   *)
(* of a salary request, the status code, the "error" text of the JSON body *)
(* ("" when the body has none) and the body of a salary reply, with the    *)
(* rows the handler's loop worked on: the shifts fetched and the wage row  *)
(* used for each.  out.fields is the set of keys of a salary reply's JSON   *)
(* body; a key that is not in it has no value in the reply.                *)
(***************************************************************************)
NoOut ==
    [fields |-> {}, message |-> "", total_hours |-> 0, estimated_salary |-> 0,
     shifts |-> {}, wages |-> <<>>]

Reply(op, arg, code, error) ==
    [op |-> op, arg |-> arg, month |-> NoMonth, code |-> code, error |-> error,
     out |-> NoOut]

(***************************************************************************)
(* The server handles requests on several threads, each with a session of  *)
(* its own.  A worker thread is idle or inside approve_shift_response,     *)
(* past the conflict lookup and before the insert, holding the handler's   *)
(* local variables; code is the status of the worker's last reply.         *)
(***************************************************************************)
Calls == {1, 2}

Idle ==
    [pc |-> "idle", code |-> 0, response_id |-> 0, employee_id |-> 0,
     group_id |-> 0, date |-> NoDate, start_time |-> NoTime,
     end_time |-> NoTime]

(***************************************************************************)
(* Shift.query.filter_by(employee_id, date, start_time, end_time)          *)
(***************************************************************************)
ShiftsAtStartOnly(employee_id, date, start_time, end_time) ==
    {i \in DOMAIN shifts :
        /\ shifts[i].employee_id = employee_id
        /\ shifts[i].date = date
        /\ shifts[i].start_time = start_time
        /\ shifts[i].end_time = start_time}

ShiftsAt(employee_id, date, start_time, end_time) ==
    {i \in DOMAIN shifts :
        /\ shifts[i].employee_id = employee_id
        /\ shifts[i].date = date
        /\ shifts[i].start_time = start_time
        /\ shifts[i].end_time = end_time}

(***************************************************************************)
(* POST /shifts.  A missing key or a malformed date/time raises inside the *)
(* try block, and so does the commit when employee_id or group_id violates *)
(* its foreign key: all of them answer 400 and store nothing.              *)
(***************************************************************************)
create_shift(employee_id, group_id, date, start_time, end_time) ==
    IF \/ ~IsDate(date) \/ start_time = NoTime \/ end_time = NoTime
       \/ employee_id \notin DOMAIN employees
       \/ group_id \notin groups
    THEN /\ last' = Reply("create_shift", 0, 400, "exception")
         /\ UNCHANGED tables
    ELSE /\ Len(shifts) < MaxShifts
         /\ shifts' = Append(shifts, [employee_id |-> employee_id,
                                      group_id |-> group_id,
                                      date |-> date,
                                      start_time |-> start_time,
                                      end_time |-> end_time])
         /\ last' = Reply("create_shift", 0, 201, "")
         /\ UNCHANGED <<employees, shift_responses, shift_swaps,
                        shift_histories, wage_rates>>

(***************************************************************************)
(* POST /shift_responses.  The token's e-mail is mapped to an Employee; a  *)
(* user with no Employee record gets one created on the spot.  The three   *)
(* preferred fields are optional.                                          *)
(***************************************************************************)
EmployeeByEmail(user_email) ==
    {i \in DOMAIN employees : employees[i] = user_email}

create_shift_response(user_email, request_id, preferred_date, preferred_start, preferred_end) ==
    IF request_id = 0
    THEN /\ last' = Reply("create_shift_response", 0, 400, "request_id is required")
         /\ UNCHANGED tables
    ELSE IF request_id \notin DOMAIN shift_requests
    THEN /\ last' = Reply("create_shift_response", 0, 404, "ShiftRequest not found")
         /\ UNCHANGED tables
    ELSE /\ Len(shift_responses) < MaxResponses
         /\ LET found == EmployeeByEmail(user_email)
                employee_id == IF found = {} THEN Len(employees) + 1
                               ELSE CHOOSE i \in found : \A j \in found : i <= j
            IN /\ employees' = IF found = {} THEN Append(employees, user_email)
                               ELSE employees
               /\ shift_responses' = Append(shift_responses,
                      [request_id |-> request_id,
                       employee_id |-> employee_id,
                       preferred_date |-> preferred_date,
                       preferred_start |-> preferred_start,
                       preferred_end |-> preferred_end])
               /\ last' = Reply("create_shift_response", 0, 201, "")
         /\ UNCHANGED <<shifts, shift_swaps, shift_histories, wage_rates>>

(***************************************************************************)
(* POST /shift_responses/<id>/approve                                      *)
(***************************************************************************)
HasPreferredDateStart(response) ==
    /\ response.preferred_date # NoDate
    /\ response.preferred_start # NoTime

\* date and start_time and end_time
HasPreferred(response) ==
    /\ response.preferred_date # NoDate
    /\ response.preferred_start # NoTime
    /\ response.preferred_end # NoTime

RequestIdAsGroup(response) == response.request_id

\* request_info = response.request; request_info.group_id
GroupOfRequest(response) == shift_requests[response.request_id]

approve_shift_response(role, response_id) ==
    IF role # "admin"
    THEN /\ last' = Reply("approve_shift_response", response_id, 403, "Admin only")
         /\ UNCHANGED tables
    ELSE IF response_id \notin DOMAIN shift_responses
    THEN /\ last' = Reply("approve_shift_response", response_id, 404,
                          "Shift response not found")
         /\ UNCHANGED tables
    ELSE LET response == shift_responses[response_id]
             employee_id == response.employee_id
             date == response.preferred_date
             start_time == response.preferred_start
             end_time == response.preferred_end
         IN IF ~HasPreferred(response)
            THEN /\ last' = Reply("approve_shift_response", response_id, 400,
                                  "Response does not contain preferred date/time")
                 /\ UNCHANGED tables
            ELSE IF ShiftsAt(employee_id, date, start_time, end_time) # {}
            THEN /\ last' = Reply("approve_shift_response", response_id, 400,
                                  "Shift already exists for this time")
                 /\ UNCHANGED tables
            ELSE /\ Len(shifts) < MaxShifts
                 /\ shifts' = Append(shifts,
                        [employee_id |-> employee_id,
                         group_id |-> GroupOfRequest(response),
                         date |-> date,
                         start_time |-> start_time,
                         end_time |-> end_time])
                 /\ last' = Reply("approve_shift_response", response_id, 201, "")
                 /\ UNCHANGED <<employees, shift_responses, shift_swaps,
                                shift_histories, wage_rates>>

(***************************************************************************)
(* POST /shift_responses/<id>/approve on worker thread c, in the two steps *)
(* another request can come between: the checks up to and including the   *)
(* conflict lookup, and the insert with its commit.  The Shift table has   *)
(* no unique constraint, so the commit accepts any row; were it to raise,  *)
(* the handler would roll back and answer 500.                             *)
(***************************************************************************)
CommitRefusesTakenSlot(shift) ==
    ShiftsAt(shift.employee_id, shift.date, shift.start_time, shift.end_time) = {}

\* db.session.add(new_shift); db.session.commit()
CommitAccepts(shift) == TRUE

Answer(c, response_id, code, error) ==
    /\ last' = Reply("approve_shift_response", response_id, code, error)
    /\ calls' = [calls EXCEPT ![c] = [Idle EXCEPT !.code = code,
                                                  !.response_id = response_id]]
    /\ UNCHANGED tables

approve_shift_response_lookup(c, role, response_id) ==
    /\ calls[c].pc = "idle"
    /\ IF role # "admin"
       THEN Answer(c, response_id, 403, "Admin only")
       ELSE IF response_id \notin DOMAIN shift_responses
       THEN Answer(c, response_id, 404, "Shift response not found")
       ELSE LET response == shift_responses[response_id]
                employee_id == response.employee_id
                date == response.preferred_date
                start_time == response.preferred_start
                end_time == response.preferred_end
            IN IF ~HasPreferred(response)
               THEN Answer(c, response_id, 400,
                           "Response does not contain preferred date/time")
               ELSE IF ShiftsAt(employee_id, date, start_time, end_time) # {}
               THEN Answer(c, response_id, 400,
                           "Shift already exists for this time")
               ELSE /\ calls' = [calls EXCEPT ![c] =
                          [pc |-> "insert",
                           code |-> 0,
                           response_id |-> response_id,
                           employee_id |-> employee_id,
                           group_id |-> GroupOfRequest(response),
                           date |-> date,
                           start_time |-> start_time,
                           end_time |-> end_time]]
                    /\ UNCHANGED <<tables, last>>

approve_shift_response_insert(c) ==
    /\ calls[c].pc = "insert"
    /\ LET new_shift == [employee_id |-> calls[c].employee_id,
                         group_id |-> calls[c].group_id,
                         date |-> calls[c].date,
                         start_time |-> calls[c].start_time,
                         end_time |-> calls[c].end_time]
       IN IF CommitAccepts(new_shift)
          THEN /\ Len(shifts) < MaxShifts
               /\ shifts' = Append(shifts, new_shift)
               /\ last' = Reply("approve_shift_response", calls[c].response_id,
                                201, "")
               /\ calls' = [calls EXCEPT ![c].pc = "idle", ![c].code = 201]
               /\ UNCHANGED <<employees, shift_responses, shift_swaps,
                              shift_histories, wage_rates>>
          ELSE Answer(c, calls[c].response_id, 500, "exception")

(***************************************************************************)
(* POST /shift_swaps.  The token identity (a User id) is compared with the *)
(* shift's employee id as it stands.                                       *)
(***************************************************************************)
AnyShift(shift_id, current_user_id) == TRUE

\* shift.employee_id != current_user_id, negated
IsOwnShift(shift_id, current_user_id) ==
    shifts[shift_id].employee_id = current_user_id

create_shift_swap(role, current_user_id, shift_id) ==
    IF role # "teacher"
    THEN /\ last' = Reply("create_shift_swap", 0, 403,
                          "Only teachers can request swaps")
         /\ UNCHANGED tables
    ELSE IF shift_id = 0
    THEN /\ last' = Reply("create_shift_swap", 0, 400, "shift_id is required")
         /\ UNCHANGED tables
    ELSE IF shift_id \notin DOMAIN shifts
    THEN /\ last' = Reply("create_shift_swap", 0, 404, "Shift not found")
         /\ UNCHANGED tables
    ELSE IF ~IsOwnShift(shift_id, current_user_id)
    THEN /\ last' = Reply("create_shift_swap", 0, 403,
                          "You can only request swaps for your own shifts")
         /\ UNCHANGED tables
    ELSE /\ Len(shift_swaps) < MaxSwaps
         /\ shift_swaps' = Append(shift_swaps, [shift_id |-> shift_id,
                                                requester_id |-> current_user_id,
                                                status |-> "pending"])
         /\ last' = Reply("create_shift_swap", 0, 201, "")
         /\ UNCHANGED <<employees, shift_responses, shifts, shift_histories,
                        wage_rates>>

(***************************************************************************)
(* PATCH /shift_swaps/<id>.  swap.status is assigned in the session before *)
(* the approval checks; a return before db.session.commit() leaves the     *)
(* assignment uncommitted, and the session is dropped with the request.    *)
(***************************************************************************)
SwapsFlushed(swap_id, new_status) ==
    [shift_swaps EXCEPT ![swap_id].status = new_status]

SwapsOnEarlyReturn(swap_id, new_status) == shift_swaps

HistoryByRole(shift_id, old_employee_id, new_employee_id, email) ==
    [shift_id |-> shift_id,
     old_employee_id |-> old_employee_id,
     new_employee_id |-> new_employee_id,
     changed_by |-> "admin"]

\* ShiftHistory(shift_id, old_employee_id, new_employee_id,
\*              changed_by=claims.get("email"))
History(shift_id, old_employee_id, new_employee_id, email) ==
    [shift_id |-> shift_id,
     old_employee_id |-> old_employee_id,
     new_employee_id |-> new_employee_id,
     changed_by |-> email]

OldAfterAssign(shift_id, new_employee_id) == new_employee_id

\* old_employee_id = shift.employee_id, read before the assignment
OldEmployee(shift_id, new_employee_id) == shifts[shift_id].employee_id

AnyStatus(new_status) == TRUE

\* new_status in ["approved", "rejected"]
IsStatus(new_status) == new_status \in {"approved", "rejected"}

ApprovalOrNewEmployee(new_status, new_employee_id) ==
    new_status = "approved" \/ new_employee_id # 0

\* if new_status == "approved"
IsApproval(new_status, new_employee_id) == new_status = "approved"

update_shift_swap_status(role, email, swap_id, new_status, new_employee_id) ==
    IF role # "admin"
    THEN /\ last' = Reply("update_shift_swap_status", 0, 403, "Admin only")
         /\ UNCHANGED tables
    ELSE IF ~IsStatus(new_status)
    THEN /\ last' = Reply("update_shift_swap_status", 0, 400, "Invalid status")
         /\ UNCHANGED tables
    ELSE IF swap_id \notin DOMAIN shift_swaps
    THEN /\ last' = Reply("update_shift_swap_status", 0, 404,
                          "Shift swap not found")
         /\ UNCHANGED tables
    ELSE IF IsApproval(new_status, new_employee_id) /\ new_employee_id = 0
    THEN /\ last' = Reply("update_shift_swap_status", 0, 400,
                          "new_employee_id is required for approval")
         /\ shift_swaps' = SwapsOnEarlyReturn(swap_id, new_status)
         /\ UNCHANGED <<employees, shift_responses, shifts, shift_histories,
                        wage_rates>>
    ELSE IF /\ IsApproval(new_status, new_employee_id)
            /\ new_employee_id \notin DOMAIN employees
    THEN /\ last' = Reply("update_shift_swap_status", 0, 404,
                          "Employee not found")
         /\ shift_swaps' = SwapsOnEarlyReturn(swap_id, new_status)
         /\ UNCHANGED <<employees, shift_responses, shifts, shift_histories,
                        wage_rates>>
    ELSE IF IsApproval(new_status, new_employee_id)
    THEN LET shift_id == shift_swaps[swap_id].shift_id
             old_employee_id == OldEmployee(shift_id, new_employee_id)
         IN /\ Len(shift_histories) < MaxHistories
            /\ shift_swaps' = [shift_swaps EXCEPT ![swap_id].status = new_status]
            /\ shifts' = [shifts EXCEPT ![shift_id].employee_id = new_employee_id]
            /\ shift_histories' = Append(shift_histories,
                   History(shift_id, old_employee_id, new_employee_id, email))
            /\ last' = Reply("update_shift_swap_status", 0, 200, "")
            /\ UNCHANGED <<employees, shift_responses, wage_rates>>
    ELSE /\ shift_swaps' = [shift_swaps EXCEPT ![swap_id].status = new_status]
         /\ last' = Reply("update_shift_swap_status", 0, 200, "")
         /\ UNCHANGED <<employees, shift_responses, shifts, shift_histories,
                        wage_rates>>

(***************************************************************************)
(* POST /wage_rates.  hourly_rate 0 and group_id 0 are falsy, hence        *)
(* "missing".                                                              *)
(***************************************************************************)
create_wage_rate(role, group_id, hourly_rate, effective_from) ==
    IF role # "admin"
    THEN /\ last' = Reply("create_wage_rate", 0, 403, "Admin only")
         /\ UNCHANGED tables
    ELSE IF group_id = 0 \/ hourly_rate = 0 \/ effective_from = NoDate
    THEN /\ last' = Reply("create_wage_rate", 0, 400, "Missing required fields")
         /\ UNCHANGED tables
    ELSE IF ~IsDate(effective_from)
    THEN /\ last' = Reply("create_wage_rate", 0, 400, "Invalid date format")
         /\ UNCHANGED tables
    ELSE IF group_id \notin groups
    THEN /\ last' = Reply("create_wage_rate", 0, 404, "group_id not found")
         /\ UNCHANGED tables
    ELSE /\ Len(wage_rates) < MaxWageRates
         /\ wage_rates' = Append(wage_rates, [group_id |-> group_id,
                                              hourly_rate |-> hourly_rate,
                                              effective_from |-> effective_from])
         /\ last' = Reply("create_wage_rate", 0, 201, "")
         /\ UNCHANGED <<employees, shift_responses, shifts, shift_swaps,
                        shift_histories>>

(***************************************************************************)
(* GET /salary_estimate/<employee_id>?month=YYYY-MM                        *)
(*                                                                         *)
(* Durations are kept in minutes and the pay in 1/60 of a currency unit,   *)
(* so the sums are exact; the reply carries total_hours in hundredths of   *)
(* an hour (round(total_hours, 2)) and the salary in whole units           *)
(* (round(total_salary, 0)), both rounded half to even as round() does.    *)
(***************************************************************************)
Truncate(n, d) == n \div d

RoundHalfEven(n, d) ==
    LET q == n \div d
        r == n % d
    IN IF 2 * r < d THEN q
       ELSE IF 2 * r > d THEN q + 1
       ELSE IF q % 2 = 0 THEN q ELSE q + 1

\* start_date: the first day of the month
StartOrdinal(month) == ToOrdinal(Date(month.y, month.m, 1))

EndOrdinalNextFirst(month) ==
    IF month.m = 12
    THEN ToOrdinal(Date(month.y + 1, 1, 1))
    ELSE ToOrdinal(Date(month.y, month.m + 1, 1))

\* end_date: the first day of the following month, minus timedelta(days=1)
EndOrdinal(month) ==
    IF month.m = 12
    THEN ToOrdinal(Date(month.y + 1, 1, 1)) - 1
    ELSE ToOrdinal(Date(month.y, month.m + 1, 1)) - 1

\* Shift.query.filter(employee_id ==, date >= start_date, date <= end_date)
ShiftsInRange(employee_id, month) ==
    {i \in DOMAIN shifts :
        /\ shifts[i].employee_id = employee_id
        /\ ToOrdinal(shifts[i].date) >= StartOrdinal(month)
        /\ ToOrdinal(shifts[i].date) <= EndOrdinal(month)}

\* WageRate.query.filter(group_id ==, effective_from <= date)
WagesFor(group_id, date) ==
    {w \in DOMAIN wage_rates :
        /\ wage_rates[w].group_id = group_id
        /\ ToOrdinal(wage_rates[w].effective_from) <= ToOrdinal(date)}

FirstByEffectiveFromAsc(rows) ==
    IF rows = {} THEN {0}
    ELSE {w \in rows : \A v \in rows :
             ToOrdinal(wage_rates[v].effective_from)
                 >= ToOrdinal(wage_rates[w].effective_from)}

\* .order_by(effective_from.desc()).first(): a row with the greatest
\* effective_from, any of them when several share it; {0} stands for None
FirstByEffectiveFromDesc(rows) ==
    IF rows = {} THEN {0}
    ELSE {w \in rows : \A v \in rows :
             ToOrdinal(wage_rates[v].effective_from)
                 <= ToOrdinal(wage_rates[w].effective_from)}

Duration(s) == s.end_time - s.start_time

HourlyRate(w) == IF w = 0 THEN 0 ELSE wage_rates[w].hourly_rate

RECURSIVE SumOver(_, _)
SumOver(S, f) ==
    IF S = {} THEN 0
    ELSE LET i == CHOOSE x \in S : TRUE
         IN f[i] + SumOver(S \ {i}, f)

\* the loop over the shifts found: every way the wage queries can answer,
\* as the sequence of the wage row chosen for each shift (0 for a shift
\* not in the loop, or with no wage row)
RECURSIVE WageChoices(_, _)
WageChoices(found, n) ==
    IF n = 0 THEN {<<>>}
    ELSE LET first == IF n \in found
                      THEN FirstByEffectiveFromDesc(
                               WagesFor(shifts[n].group_id, shifts[n].date))
                      ELSE {0}
         IN {Append(w, c) : w \in WageChoices(found, n - 1), c \in first}

NumericAlways(found) == FALSE

\* if not shifts
NoShifts(found) == found = {}

\* the keys of the two 200 bodies
MessageBody == {"message"}
NumericBody == {"employee_id", "month", "total_hours", "estimated_salary"}

salary_estimate(employee_id, month) ==
    IF month = NoMonth
    THEN /\ last' = Reply("salary_estimate", employee_id, 400,
                          "month parameter required (YYYY-MM)")
         /\ UNCHANGED tables
    ELSE IF ~IsMonth(month)
    THEN /\ last' = Reply("salary_estimate", employee_id, 400,
                          "Invalid month format (YYYY-MM)")
         /\ UNCHANGED tables
    ELSE LET found == ShiftsInRange(employee_id, month)
         IN IF NoShifts(found)
            THEN /\ last' = [Reply("salary_estimate", employee_id, 200, "") EXCEPT
                                !.month = month,
                                !.out.fields = MessageBody,
                                !.out.message = "No shifts found for this month"]
                 /\ UNCHANGED tables
            ELSE \E wage \in WageChoices(found, Len(shifts)) :
                    LET total_minutes ==
                            SumOver(found, [i \in found |-> Duration(shifts[i])])
                        total_pay ==
                            SumOver(found, [i \in found |->
                                Duration(shifts[i]) * HourlyRate(wage[i])])
                    IN /\ last' = [Reply("salary_estimate", employee_id, 200, "") EXCEPT
                                      !.month = month,
                                      !.out.fields = NumericBody,
                                      !.out.shifts = found,
                                      !.out.total_hours =
                                          RoundHalfEven(100 * total_minutes, 60),
                                      !.out.estimated_salary =
                                          RoundHalfEven(total_pay, 60),
                                      !.out.wages = wage]
                       /\ UNCHANGED tables

(***************************************************************************)
(* Requests are drawn from small sets.  Id 3 is no employee and group 3    *)
(* does not exist.                                                         *)
(***************************************************************************)
Day1 == Date(2025, 5, 1)
Day2 == Date(2025, 5, 2)
\* the one slot of the day: 09:00 to 12:00
WfSlot == <<540, 720>>
EmployeeIds == {1, 2, 3}

Init ==
    /\ employees = <<"t1@x", "t2@x">>
    /\ shift_responses = <<>>
    /\ shifts = <<>>
    /\ shift_swaps = <<>>
    /\ shift_histories = <<>>
    /\ wage_rates = <<>>
    /\ last = Reply("", 0, 0, "")
    /\ calls = [c \in Calls |-> Idle]

(***************************************************************************)
(* Approval workflow: one registered employee; the second user gets an     *)
(* Employee record with the first response submitted.                      *)
(***************************************************************************)
InitApproval ==
    /\ employees = <<"t1@x">>
    /\ shift_responses = <<>>
    /\ shifts = <<>>
    /\ shift_swaps = <<>>
    /\ shift_histories = <<>>
    /\ wage_rates = <<>>
    /\ last = Reply("", 0, 0, "")
    /\ calls = [c \in Calls |-> Idle]

ShiftPosts ==
    ({1, 2, 3} \X {1} \X {Day1, Day2})
    \cup {<<1, 3, Day1>>, <<1, 1, NoDate>>}

CreateShift ==
    /\ \E q \in ShiftPosts :
           create_shift(q[1], q[2], q[3], WfSlot[1], WfSlot[2])
    /\ UNCHANGED calls

ResponsePosts ==
    ({"t1@x", "t2@x"} \X {1, 2} \X {<<Day1, WfSlot[1], WfSlot[2]>>})
    \cup ({"t1@x"} \X {1} \X {<<NoDate, WfSlot[1], WfSlot[2]>>,
                              <<Day1, NoTime, WfSlot[2]>>,
                              <<Day1, WfSlot[1], NoTime>>})
    \cup {<<"t1@x", 0, <<Day1, WfSlot[1], WfSlot[2]>> >>,
          <<"t1@x", 3, <<Day1, WfSlot[1], WfSlot[2]>> >>}

CreateShiftResponse ==
    /\ \E q \in ResponsePosts :
           create_shift_response(q[1], q[2], q[3][1], q[3][2], q[3][3])
    /\ UNCHANGED calls

ApproveShiftResponse ==
    /\ \E role \in Roles, r \in 1..(MaxResponses + 1) :
           approve_shift_response(role, r)
    /\ UNCHANGED calls

NextApproval ==
    \/ CreateShift
    \/ CreateShiftResponse
    \/ ApproveShiftResponse

SpecApproval == InitApproval /\ [][NextApproval]_vars

(***************************************************************************)
(* Concurrent approvals: the responses come in one request at a time, the  *)
(* admins' approvals run on two worker threads.                            *)
(***************************************************************************)
ConcurrentPosts ==
    ({"t1@x", "t2@x"} \X {1, 2} \X {<<Day1, WfSlot[1], WfSlot[2]>>})
    \cup {<<"t1@x", 1, <<Day1, WfSlot[1], NoTime>> >>}

SubmitShiftResponse ==
    /\ \E q \in ConcurrentPosts :
           create_shift_response(q[1], q[2], q[3][1], q[3][2], q[3][3])
    /\ UNCHANGED calls

ApproveLookup ==
    \E c \in Calls, q \in ({"admin"} \X (1..(MaxResponses + 1))) \cup {<<"teacher", 1>>} :
        approve_shift_response_lookup(c, q[1], q[2])

ApproveInsert ==
    \E c \in Calls :
        approve_shift_response_insert(c)

NextConcurrent ==
    \/ SubmitShiftResponse
    \/ ApproveLookup
    \/ ApproveInsert

SpecConcurrent == InitApproval /\ [][NextConcurrent]_vars

(***************************************************************************)
(* Swap workflow: two registered employees, shifts assigned directly.      *)
(***************************************************************************)
AssignShift ==
    /\ Len(shifts) < MaxAssigned
    /\ \E e \in EmployeeIds, g \in {1, 3} :
           create_shift(e, g, Day1, WfSlot[1], WfSlot[2])
    /\ UNCHANGED calls

SwapPosts ==
    ({"teacher"} \X EmployeeIds \X (0..(MaxAssigned + 1))) \cup {<<"admin", 1, 1>>}

CreateShiftSwap ==
    /\ \E q \in SwapPosts :
           create_shift_swap(q[1], q[2], q[3])
    /\ UNCHANGED calls

SwapPatches ==
    ({"admin"} \X {"boss@x"} \X (1..(MaxSwaps + 1)) \X {"approved"}
        \X ({0} \cup EmployeeIds))
    \cup ({"admin"} \X {"boss@x"} \X (1..(MaxSwaps + 1)) \X {"rejected"} \X {0, 2})
    \cup {<<"admin", "chief@x", 1, "approved", 2>>,
          <<"admin", "boss@x", 1, "pending", 2>>,
          <<"teacher", "t1@x", 1, "approved", 2>>}

UpdateShiftSwapStatus ==
    /\ \E q \in SwapPatches :
           update_shift_swap_status(q[1], q[2], q[3], q[4], q[5])
    /\ UNCHANGED calls

NextSwap ==
    \/ AssignShift
    \/ CreateShiftSwap
    \/ UpdateShiftSwapStatus

SpecSwap == Init /\ [][NextSwap]_vars

(***************************************************************************)
(* Swap review: employee 1 holds one shift and has filed two swap requests *)
(* for it, both pending; the admins answer them in any order, any number   *)
(* of times.  Swap 3 does not exist, "pending" and "" are no status to     *)
(* set.                                                                    *)
(***************************************************************************)
InitReview ==
    /\ employees = <<"t1@x", "t2@x">>
    /\ shift_responses = <<>>
    /\ shifts = <<[employee_id |-> 1, group_id |-> 1, date |-> Day1,
                   start_time |-> WfSlot[1], end_time |-> WfSlot[2]]>>
    /\ shift_swaps = <<[shift_id |-> 1, requester_id |-> 1, status |-> "pending"],
                       [shift_id |-> 1, requester_id |-> 1, status |-> "pending"]>>
    /\ shift_histories = <<>>
    /\ wage_rates = <<>>
    /\ last = Reply("create_shift_swap", 0, 201, "")
    /\ calls = [c \in Calls |-> Idle]

ReviewPatches ==
    ({"admin"} \X {"boss@x"} \X {1, 2} \X {"approved", "rejected"} \X {0, 1, 2})
    \cup ({"admin"} \X {"boss@x"} \X {1, 3} \X {"rejected", "pending", ""} \X {0})
    \cup ({"teacher"} \X {"t1@x"} \X {1, 3} \X {"approved", "pending"} \X {2})
    \cup {<<"admin", "chief@x", 2, "approved", 2>>,
          <<"admin", "boss@x", 3, "approved", 2>>,
          <<"admin", "boss@x", 1, "approved", 3>>}

ReviewShiftSwap ==
    /\ \E q \in ReviewPatches :
           update_shift_swap_status(q[1], q[2], q[3], q[4], q[5])
    /\ UNCHANGED calls

NextReview == ReviewShiftSwap

SpecReview == InitReview /\ [][NextReview]_vars

(***************************************************************************)
(* Salary estimate: shifts of 20 minutes and of 3 hours around the start   *)
(* of July 2025, wage rates of two groups taking effect before, inside and *)
(* after the month, two of them on the same day.                           *)
(***************************************************************************)
Jan01 == Date(2025, 1, 1)
Jun30 == Date(2025, 6, 30)
Jul01 == Date(2025, 7, 1)
Jul15 == Date(2025, 7, 15)
July == [y |-> 2025, m |-> 7]

PaidShiftPosts ==
    {<<1, 1, Jul01, 540, 560>>, <<1, 1, Jul15, 540, 720>>,
     <<1, 2, Jul15, 540, 720>>, <<1, 1, Jun30, 540, 720>>,
     <<1, 1, Jul01, 540, 570>>}

CreatePaidShift ==
    /\ \E q \in PaidShiftPosts :
           create_shift(q[1], q[2], q[3], q[4], q[5])
    /\ UNCHANGED calls

WageRatePosts ==
    {<<"admin", 1, 1000, Jul01>>, <<"admin", 1, 1200, Jul15>>,
     <<"admin", 1, 1001, Jul15>>, <<"admin", 2, 1500, Jul01>>,
     <<"teacher", 1, 1000, Jan01>>, <<"admin", 1, 0, Jan01>>,
     <<"admin", 3, 1000, Jan01>>, <<"admin", 1, 1000, Date(2025, 2, 30)>>}

CreateWageRate ==
    /\ \E q \in WageRatePosts :
           create_wage_rate(q[1], q[2], q[3], q[4])
    /\ UNCHANGED calls

SalaryEstimate ==
    /\ \E q \in {<<1, July>>, <<1, [y |-> 2025, m |-> 6]>>, <<2, July>>,
                  <<1, NoMonth>>, <<1, [y |-> 2025, m |-> 13]>>} :
           salary_estimate(q[1], q[2])
    /\ UNCHANGED calls

NextSalary ==
    \/ CreatePaidShift
    \/ CreateWageRate
    \/ SalaryEstimate

SpecSalary == Init /\ [][NextSalary]_vars

(***************************************************************************)
(* Month range: one-hour shifts on the days around the ends of December    *)
(* 2024, February 2024 (29 days), February 2025 (28 days), April 2025 (30  *)
(* days) and July 2025 (31 days).                                          *)
(***************************************************************************)
Months ==
    {[y |-> 2024, m |-> 12], [y |-> 2024, m |-> 2], [y |-> 2025, m |-> 2],
     [y |-> 2025, m |-> 4], [y |-> 2025, m |-> 7]}

EdgeDays ==
    UNION {{Date(mo.y, mo.m, 1), Date(mo.y, mo.m, DaysInMonth(mo.y, mo.m)),
            IF mo.m = 1 THEN Date(mo.y - 1, 12, 31)
            ELSE Date(mo.y, mo.m - 1, DaysInMonth(mo.y, mo.m - 1)),
            IF mo.m = 12 THEN Date(mo.y + 1, 1, 1)
            ELSE Date(mo.y, mo.m + 1, 1)} : mo \in Months}
    \cup {Date(2025, 2, 29), Date(2025, 4, 31)}

CreateDatedShift ==
    /\ \E q \in ({1} \X EdgeDays) \cup ({2} \X {Date(2024, 12, 31), Date(2025, 7, 1)}) :
           create_shift(q[1], 1, q[2], 540, 600)
    /\ UNCHANGED calls

MonthEstimate ==
    /\ \E e \in {1, 2}, month \in Months :
           salary_estimate(e, month)
    /\ UNCHANGED calls

NextMonth ==
    \/ CreateDatedShift
    \/ MonthEstimate

SpecMonth == Init /\ [][NextMonth]_vars

(***************************************************************************)
(* The whole system.                                                       *)
(***************************************************************************)
Next ==
    \/ NextApproval
    \/ NextConcurrent
    \/ NextSwap
    \/ NextReview
    \/ NextSalary
    \/ NextMonth

Spec == Init /\ [][Next]_vars

(***************************************************************************)
(*                              Properties                                 *)
(***************************************************************************)
Conflict == "Shift already exists for this time"
NoPreferred == "Response does not contain preferred date/time"

\* the shifts that hold the slot a response asks for
SlotOf(r) ==
    LET response == shift_responses[r]
    IN {i \in DOMAIN shifts :
          /\ shifts[i].employee_id = response.employee_id
          /\ shifts[i].date = response.preferred_date
          /\ shifts[i].start_time = response.preferred_start
          /\ shifts[i].end_time = response.preferred_end}

Complete(r) ==
    /\ shift_responses[r].preferred_date # NoDate
    /\ shift_responses[r].preferred_start # NoTime
    /\ shift_responses[r].preferred_end # NoTime

\* C1: an admin's approval of a complete response whose slot is free answers
\* 201 and leaves exactly one shift on the slot; an approval that directly
\* follows an approval of the same response (the successful one, or a
\* refused one with one shift on the slot) answers 400 "Shift already
\* exists", stores nothing and leaves exactly one shift on the slot.
C1_ApproveTwice ==
    [][\A r \in DOMAIN shift_responses :
          ( /\ last'.op = "approve_shift_response"
            /\ Complete(r)
            /\ approve_shift_response("admin", r) ) =>
             /\ SlotOf(r) = {} =>
                   /\ last'.code = 201
                   /\ Len(shifts') = Len(shifts) + 1
                   /\ Cardinality(SlotOf(r)') = 1
             /\ ( /\ last.op = "approve_shift_response"
                  /\ last.arg = r
                  /\ \/ last.code = 201
                     \/ last.error = Conflict /\ Cardinality(SlotOf(r)) = 1 ) =>
                   /\ last'.code = 400
                   /\ last'.error = Conflict
                   /\ shifts' = shifts
                   /\ Cardinality(SlotOf(r)') = 1
      ]_vars

\* a repeated approval was refused, and the one shift on the slot carries the
\* group of the response's request (group 2, which only an approval assigns)
C1_Witness ==
    /\ last.op = "approve_shift_response"
    /\ last.code = 400
    /\ last.error = Conflict
    /\ Cardinality(SlotOf(last.arg)) = 1
    /\ shift_requests[shift_responses[last.arg].request_id] = 2
    /\ \A i \in SlotOf(last.arg) : shifts[i].group_id = 2

\* C2: a status update addressed to a swap that is already approved or
\* rejected leaves the swap's status, the shifts and the history rows as
\* they are.
C2_TerminalIsFinal ==
    [][\A q \in SwapPatches :
          ( /\ last'.op = "update_shift_swap_status"
            /\ q[3] \in DOMAIN shift_swaps
            /\ shift_swaps[q[3]].status \in {"approved", "rejected"}
            /\ update_shift_swap_status(q[1], q[2], q[3], q[4], q[5]) ) =>
             /\ shift_swaps'[q[3]].status = shift_swaps[q[3]].status
             /\ shifts' = shifts
             /\ shift_histories' = shift_histories
      ]_vars

\* C3: an admin's approval of a pending swap with an existing new employee
\* answers 200, sets the swap approved, hands the shift to the new employee
\* and appends exactly one history row: the shift, its employee before the
\* call, the new employee, the admin's e-mail.
C3_ApproveSwap ==
    [][\A q \in SwapPatches :
          ( /\ last'.op = "update_shift_swap_status"
            /\ q[1] = "admin"
            /\ q[4] = "approved"
            /\ q[3] \in DOMAIN shift_swaps
            /\ shift_swaps[q[3]].status = "pending"
            /\ q[5] \in DOMAIN employees
            /\ update_shift_swap_status(q[1], q[2], q[3], q[4], q[5]) ) =>
             LET shift_id == shift_swaps[q[3]].shift_id
             IN /\ last'.code = 200
                /\ shift_swaps'[q[3]].status = "approved"
                /\ shifts'[shift_id].employee_id = q[5]
                /\ shift_histories' = Append(shift_histories,
                       [shift_id |-> shift_id,
                        old_employee_id |-> shifts[shift_id].employee_id,
                        new_employee_id |-> q[5],
                        changed_by |-> q[2]])
      ]_vars

\* a swap was approved by the second admin and the shift changed hands
C3_Witness ==
    /\ last.op = "update_shift_swap_status"
    /\ last.code = 200
    /\ \E w \in DOMAIN shift_swaps : shift_swaps[w].status = "approved"
    /\ Len(shift_histories) = 1
    /\ shift_histories[1].changed_by = "chief@x"
    /\ shift_histories[1].old_employee_id # shift_histories[1].new_employee_id
    /\ shifts[shift_histories[1].shift_id].employee_id
           = shift_histories[1].new_employee_id

\* C4: an admin's approval of an existing swap without new_employee_id
\* answers 400, one whose new_employee_id is no employee answers 404, and
\* both leave every table as it was (a pending swap stays pending).
C4_RefusedApprovalStoresNothing ==
    [][\A q \in SwapPatches :
          ( /\ last'.op = "update_shift_swap_status"
            /\ q[1] = "admin"
            /\ q[4] = "approved"
            /\ q[3] \in DOMAIN shift_swaps
            /\ q[5] \notin DOMAIN employees
            /\ update_shift_swap_status(q[1], q[2], q[3], q[4], q[5]) ) =>
             /\ last'.code = IF q[5] = 0 THEN 400 ELSE 404
             /\ UNCHANGED tables
      ]_vars

\* an approval naming no employee was refused while the swap is pending
C4_Witness ==
    /\ last.op = "update_shift_swap_status"
    /\ last.error \in {"new_employee_id is required for approval",
                       "Employee not found"}
    /\ \E w \in DOMAIN shift_swaps : shift_swaps[w].status = "pending"

\* C5: no two shifts share (employee, date, start_time, end_time).
C5_NoDuplicateShift ==
    \A i, j \in DOMAIN shifts :
        ( /\ shifts[i].employee_id = shifts[j].employee_id
          /\ shifts[i].date = shifts[j].date
          /\ shifts[i].start_time = shifts[j].start_time
          /\ shifts[i].end_time = shifts[j].end_time ) => i = j

\* the calendar, read off the fields of a date
NotAfter(a, b) ==
    \/ a.y < b.y
    \/ a.y = b.y /\ a.m < b.m
    \/ a.y = b.y /\ a.m = b.m /\ a.d <= b.d

InMonth(date, month) == date.y = month.y /\ date.m = month.m

\* the last request was a salary estimate answered with the numeric body
Estimated ==
    /\ last.op = "salary_estimate"
    /\ last.code = 200
    /\ last.out.message = ""

\* the employee's shifts of the month asked for
MonthShifts ==
    {i \in DOMAIN shifts :
        shifts[i].employee_id = last.arg /\ InMonth(shifts[i].date, last.month)}

\* the wage rows of the shift's group in effect on the shift's date
Qualifying(i) ==
    {v \in DOMAIN wage_rates :
        /\ wage_rates[v].group_id = shifts[i].group_id
        /\ NotAfter(wage_rates[v].effective_from, shifts[i].date)}

RECURSIVE SumTo(_, _)
SumTo(n, f) == IF n = 0 THEN 0 ELSE f[n] + SumTo(n - 1, f)

\* minutes worked in the shifts S
Minutes(S) ==
    SumTo(Len(shifts), [i \in DOMAIN shifts |->
        IF i \in S THEN shifts[i].end_time - shifts[i].start_time ELSE 0])

\* pay of the shifts S at the wage rows the estimate used, in 1/60 units
Pay(S) ==
    SumTo(Len(shifts), [i \in DOMAIN shifts |->
        IF i \in S /\ last.out.wages[i] # 0
        THEN (shifts[i].end_time - shifts[i].start_time)
                 * wage_rates[last.out.wages[i]].hourly_rate
        ELSE 0])

\* v is an integer nearest to n/d
Nearest(v, n, d) ==
    LET gap == IF d * v >= n THEN d * v - n ELSE n - d * v
    IN 2 * gap <= d

\* C6: the wage row the estimate uses for a shift is a row of the shift's
\* group with effective_from <= the shift's date and no such row has a later
\* effective_from; it uses no row when the group has none in effect.
C6_ResolvedRate ==
    Estimated =>
        \A i \in last.out.shifts :
            LET w == last.out.wages[i]
            IN IF Qualifying(i) = {} THEN w = 0
               ELSE /\ w \in Qualifying(i)
                    /\ \A v \in Qualifying(i) :
                          NotAfter(wage_rates[v].effective_from,
                                   wage_rates[w].effective_from)

\* an estimate used the later of two rows in effect for a shift
C6_Witness ==
    /\ Estimated
    /\ \E i \in last.out.shifts : \E v \in Qualifying(i) :
          /\ last.out.wages[i] # 0
          /\ wage_rates[v].effective_from
                 # wage_rates[last.out.wages[i]].effective_from

\* C7 as claimed: the reply's total_hours is the sum of the durations and
\* its salary the sum of duration times rate, exactly.
C7_ExactTotals ==
    Estimated =>
        /\ 60 * last.out.total_hours = 100 * Minutes(MonthShifts)
        /\ 60 * last.out.estimated_salary = Pay(MonthShifts)

\* C7 as amended: the reply's total_hours is the sum of the durations
\* rounded to 1/100 hour and its salary the sum of duration times rate
\* rounded to a whole unit, a shift with no wage row in effect adding its
\* hours and no pay.
C7_RoundedTotals ==
    Estimated =>
        /\ Nearest(last.out.total_hours, 100 * Minutes(MonthShifts), 60)
        /\ Nearest(last.out.estimated_salary, Pay(MonthShifts), 60)
        /\ \A i \in MonthShifts : Qualifying(i) = {} => last.out.wages[i] = 0

\* an estimate over a paid and an unpaid shift whose hours needed rounding
C7_Witness ==
    /\ Estimated
    /\ \E i, j \in MonthShifts :
          /\ Qualifying(i) = {}
          /\ last.out.wages[j] # 0
    /\ 60 * last.out.total_hours # 100 * Minutes(MonthShifts)
    /\ last.out.estimated_salary > 0

\* C8: the shifts a salary estimate counts are the employee's shifts dated
\* in the month asked for, and no others; it answers "no shifts" when there
\* are none.
C8_MonthRange ==
    (last.op = "salary_estimate" /\ last.code = 200) =>
        IF last.out.message # ""
        THEN MonthShifts = {}
        ELSE /\ last.out.shifts = MonthShifts
             /\ MonthShifts # {}
             /\ Nearest(last.out.total_hours, 100 * Minutes(MonthShifts), 60)

\* a December estimate counted the shift of 31 December and left out the
\* same employee's shift of 1 January
C8_Witness ==
    /\ Estimated
    /\ last.month = [y |-> 2024, m |-> 12]
    /\ \E i \in last.out.shifts : shifts[i].date = Date(2024, 12, 31)
    /\ \E j \in DOMAIN shifts \ last.out.shifts :
          /\ shifts[j].date = Date(2025, 1, 1)
          /\ shifts[j].employee_id = last.arg

\* C9: an admin's approval of a response id that does not exist answers 404,
\* one of a response lacking preferred_date, preferred_start or
\* preferred_end answers 400, and both leave every table as it was.
C9_ApprovalRefused ==
    [][\A r \in 1..(MaxResponses + 1) :
          ( /\ last'.op = "approve_shift_response"
            /\ approve_shift_response("admin", r) ) =>
             /\ r \notin DOMAIN shift_responses =>
                   last'.code = 404 /\ UNCHANGED tables
             /\ (r \in DOMAIN shift_responses /\ ~Complete(r)) =>
                   /\ last'.code = 400
                   /\ last'.error = NoPreferred
                   /\ UNCHANGED tables
      ]_vars

\* the approval of a response that lacks only its preferred_end was refused
C9_Witness ==
    /\ last.op = "approve_shift_response"
    /\ last.code = 400
    /\ last.error = NoPreferred
    /\ shift_responses[last.arg].preferred_date # NoDate
    /\ shift_responses[last.arg].preferred_start # NoTime
    /\ shift_responses[last.arg].preferred_end = NoTime

\* C10: a teacher's swap request for a shift that does not exist answers
\* 404, one for a shift of another employee answers 403, and neither stores
\* anything; one for the teacher's own shift answers 201 and appends exactly
\* one swap for that shift, pending, with the requester, the shifts
\* unchanged.
C10_CreateSwap ==
    [][\A u \in EmployeeIds, s \in 1..(MaxAssigned + 1) :
          ( /\ last'.op = "create_shift_swap"
            /\ create_shift_swap("teacher", u, s) ) =>
             IF s \notin DOMAIN shifts
             THEN last'.code = 404 /\ UNCHANGED tables
             ELSE IF shifts[s].employee_id # u
             THEN last'.code = 403 /\ UNCHANGED tables
             ELSE /\ last'.code = 201
                  /\ shift_swaps' = Append(shift_swaps,
                         [shift_id |-> s, requester_id |-> u, status |-> "pending"])
                  /\ UNCHANGED <<employees, shift_responses, shifts,
                                 shift_histories, wage_rates>>
      ]_vars

\* a swap was requested for a shift by its holder
C10_Witness ==
    /\ last.op = "create_shift_swap"
    /\ last.code = 201
    /\ Len(shift_swaps) >= 1
    /\ LET swap == shift_swaps[Len(shift_swaps)]
       IN /\ swap.status = "pending"
          /\ shifts[swap.shift_id].employee_id = swap.requester_id

\* C11: a salary estimate answered 200 carries the "no shifts" message, and
\* neither total_hours nor estimated_salary, exactly when the employee has
\* no shift in the month; with at least one shift in the month it carries
\* both numbers and no message, also when the numbers are zero.
C11_MessageOrNumbers ==
    (last.op = "salary_estimate" /\ last.code = 200) =>
        IF MonthShifts = {}
        THEN /\ last.out.fields = {"message"}
             /\ last.out.message = "No shifts found for this month"
        ELSE /\ "message" \notin last.out.fields
             /\ {"total_hours", "estimated_salary"} \subseteq last.out.fields
             /\ last.out.message = ""

\* an estimate over shifts that no wage row covers reported a salary of zero
C11_Witness ==
    /\ last.op = "salary_estimate"
    /\ last.code = 200
    /\ MonthShifts # {}
    /\ \A i \in MonthShifts : Qualifying(i) = {}
    /\ "estimated_salary" \in last.out.fields
    /\ last.out.estimated_salary = 0
    /\ last.out.total_hours > 0

\* C12: an admin's rejection of a pending swap, with or without a
\* new_employee_id in the request, answers 200 and sets that swap's status
\* to rejected; every shift, every history row, every other swap and every
\* other table is as before.
C12_RejectOnlySetsStatus ==
    [][\A q \in ReviewPatches :
          ( /\ last'.op = "update_shift_swap_status"
            /\ q[1] = "admin"
            /\ q[4] = "rejected"
            /\ q[3] \in DOMAIN shift_swaps
            /\ shift_swaps[q[3]].status = "pending"
            /\ update_shift_swap_status(q[1], q[2], q[3], q[4], q[5]) ) =>
             /\ last'.code = 200
             /\ shift_swaps' = [shift_swaps EXCEPT ![q[3]].status = "rejected"]
             /\ shifts' = shifts
             /\ shift_histories' = shift_histories
             /\ UNCHANGED <<employees, shift_responses, wage_rates>>
      ]_vars

\* one of the two swaps of the shift was rejected, the other is still
\* pending, the shift is with its holder and there is no history row
C12_Witness ==
    /\ last.op = "update_shift_swap_status"
    /\ last.code = 200
    /\ Len(shift_swaps) = 2
    /\ shift_swaps[1].status = "pending"
    /\ shift_swaps[2].status = "rejected"
    /\ shifts[1].employee_id = shift_swaps[2].requester_id
    /\ shift_histories = <<>>

\* C15: a status update by a caller who is not an admin answers 403, an
\* admin's update with a status other than approved or rejected answers
\* 400, an admin's update with such a status for a swap id that does not
\* exist answers 404, and all three leave every table as it was; the status
\* of every swap is always pending, approved or rejected.
C15_RefusedUpdateStoresNothing ==
    /\ [](\A w \in DOMAIN shift_swaps :
             shift_swaps[w].status \in {"pending", "approved", "rejected"})
    /\ [][\A q \in ReviewPatches :
             ( /\ last'.op = "update_shift_swap_status"
               /\ \/ q[1] # "admin"
                  \/ q[4] \notin {"approved", "rejected"}
                  \/ q[3] \notin DOMAIN shift_swaps
               /\ update_shift_swap_status(q[1], q[2], q[3], q[4], q[5]) ) =>
                /\ last'.code = IF q[1] # "admin" THEN 403
                                ELSE IF q[4] \notin {"approved", "rejected"}
                                THEN 400 ELSE 404
                /\ UNCHANGED tables
         ]_vars

\* an update with a status that is none of the two was refused while a swap
\* is pending and another has been decided
C15_Witness ==
    /\ last.op = "update_shift_swap_status"
    /\ last.code = 400
    /\ last.error = "Invalid status"
    /\ \E w, v \in DOMAIN shift_swaps :
          /\ shift_swaps[w].status = "pending"
          /\ shift_swaps[v].status = "approved"

\* C13: an admin's approval answered 201 appends exactly one shift, with the
\* response's employee, the group of the response's shift request and the
\* response's preferred date, start and end; the responses, the shifts
\* already stored, the swaps, the history rows and every other table are as
\* before (the shift requests are fixed reference data).
C13_ApproveCreatesOneShift ==
    [][\A r \in DOMAIN shift_responses :
          ( /\ last'.op = "approve_shift_response"
            /\ last'.code = 201
            /\ approve_shift_response("admin", r) ) =>
             /\ shifts' = Append(shifts,
                    [employee_id |-> shift_responses[r].employee_id,
                     group_id |-> shift_requests[shift_responses[r].request_id],
                     date |-> shift_responses[r].preferred_date,
                     start_time |-> shift_responses[r].preferred_start,
                     end_time |-> shift_responses[r].preferred_end])
             /\ shift_responses' = shift_responses
             /\ UNCHANGED <<employees, shift_swaps, shift_histories, wage_rates>>
      ]_vars

\* the second response, of the second employee for request 1, was approved
\* next to a shift stored before: the new shift is the second employee's, in
\* group 2, on the slot asked for
C13_Witness ==
    /\ last.op = "approve_shift_response"
    /\ last.code = 201
    /\ last.arg = 2
    /\ Len(shifts) = 2
    /\ shift_responses[2].request_id = 1
    /\ shifts[2].employee_id = shift_responses[2].employee_id
    /\ shifts[2].employee_id = 2
    /\ shifts[2].group_id = 2
    /\ shifts[2].date = shift_responses[2].preferred_date
    /\ shifts[1].employee_id = 1

\* the shifts on the slot worker c found free
CallSlot(c) ==
    ShiftsAt(calls[c].employee_id, calls[c].date, calls[c].start_time,
             calls[c].end_time)

\* C14: the insert step of an approval that has passed the conflict lookup
\* answers 201 and adds its shift without looking at the table again: the
\* slot holds one shift more than before the step, whatever another
\* approval has inserted since the lookup, so two approvals that both
\* passed the lookup for one slot leave two shifts on it.
C14_InsertAfterLookup ==
    [][\A c \in Calls :
          ( /\ calls[c].pc = "insert"
            /\ approve_shift_response_insert(c) ) =>
             /\ last'.code = 201
             /\ calls'[c].code = 201
             /\ Len(shifts') = Len(shifts) + 1
             /\ Cardinality(CallSlot(c)') = Cardinality(CallSlot(c)) + 1
      ]_vars

\* both workers approved the same response, both answered 201, and the
\* table holds two shifts on that response's slot
C14_Witness ==
    /\ \A c \in Calls : calls[c].pc = "idle" /\ calls[c].code = 201
    /\ calls[1].response_id = calls[2].response_id
    /\ Len(shifts) = 2
    /\ shifts[1] = shifts[2]
    /\ Cardinality(SlotOf(calls[1].response_id)) = 2

\* the history rows of a shift, oldest first
TrailOf(shift_id) ==
    SelectSeq(shift_histories, LAMBDA h : h.shift_id = shift_id)

\* C16: in the sequential workflow the history rows are only ever appended
\* to; a shift's employee changes only in a step that appends a row for that
\* shift, and the row appended names the shift's employee before the step
\* as old_employee, so the first row of a shift starts from its original
\* employee; within a shift's rows each old_employee is the new_employee of
\* the row before, and the new_employee of the latest row is the shift's
\* current employee.
C16_OwnershipTrail ==
    /\ [](\A i \in DOMAIN shifts :
             LET trail == TrailOf(i)
             IN /\ \A k \in 2..Len(trail) :
                      trail[k].old_employee_id = trail[k - 1].new_employee_id
                /\ Len(trail) > 0 =>
                      trail[Len(trail)].new_employee_id = shifts[i].employee_id)
    /\ [][ /\ Len(shift_histories') >= Len(shift_histories)
           /\ SubSeq(shift_histories', 1, Len(shift_histories)) = shift_histories
           /\ Len(shift_histories') <= Len(shift_histories) + 1
           /\ \A i \in DOMAIN shifts :
                 /\ i \in DOMAIN shifts'
                 /\ shifts'[i].employee_id # shifts[i].employee_id =>
                       /\ Len(shift_histories') = Len(shift_histories) + 1
                       /\ shift_histories'[Len(shift_histories')].shift_id = i
           /\ Len(shift_histories') = Len(shift_histories) + 1 =>
                 LET row == shift_histories'[Len(shift_histories')]
                 IN /\ row.shift_id \in DOMAIN shifts
                    /\ row.old_employee_id = shifts[row.shift_id].employee_id
                    /\ row.new_employee_id = shifts'[row.shift_id].employee_id
         ]_vars

\* a shift went from its first holder to a second and back: two rows
C16_Witness ==
    /\ Len(shift_histories) = 2
    /\ shift_histories[1].shift_id = shift_histories[2].shift_id
    /\ shift_histories[1].old_employee_id # shift_histories[1].new_employee_id
    /\ shift_histories[2].old_employee_id = shift_histories[1].new_employee_id
    /\ shift_histories[2].new_employee_id = shift_histories[1].old_employee_id
    /\ shifts[shift_histories[2].shift_id].employee_id
           = shift_histories[1].old_employee_id

====
